---- MODULE Spec2Model ----
(***************************************************************************)
(* Model of the hospital-management backend (src/main.py): the document    *)
(* store reached through the global handle db, the three insert handlers   *)
(* and the GET /stats handler live_stats, which issues two count queries   *)
(* and derives four display metrics from them, with a fixed fallback when  *)
(* anything inside its try block raises.                                   *)
(*                                                                         *)
(* A collection is abstracted to the number of its documents on each side  *)
(* of the filter live_stats counts with (on_duty true / false, date equal  *)
(* to today's UTC date / another date).                                    *)
(***************************************************************************)
EXTENDS Integers, Sequences, FiniteSets

\* ------------------------------------------------------------------ bounds
MaxOnDuty == 3      \* on-duty doctors inserted under Spec
MaxToday == 4       \* appointments dated today inserted under Spec
MaxOther == 1       \* documents not matching a filter, per collection, under Spec
MaxD == 100         \* largest on-duty count drawn by InitFn
MaxA == 110         \* largest appointments-today count drawn by InitFn
MaxShortLen == 1    \* longest enumerated short error message

\* Length of the only truncation the source performs (str(e)[:80] in
\* test_database); live_stats itself applies none.
NoteMax == 80

\* ------------------------------------------------------------ pure helpers
Requests == {"r1", "r2"}

ErrChars == {"a", "b"}

LongMessage(n) == [i \in 1..n |-> "x"]

ShortMessages == UNION {[1..n -> ErrChars] : n \in 0..MaxShortLen}

\* Messages carried by the exceptions a store query can raise.
ErrMessages == ShortMessages \cup {LongMessage(NoteMax), LongMessage(NoteMax + 1)}

Exceptions == [message : ErrMessages]

Max2(a, b) == IF a >= b THEN a ELSE b

Min2(a, b) == IF a <= b THEN a ELSE b

\* Python round() of the exact quotient num/den: ties go to the even integer.
py_round(num, den) ==
    LET q == num \div den
        rem == num % den
    IN  IF 2 * rem < den THEN q
        ELSE IF 2 * rem > den THEN q + 1
        ELSE IF q % 2 = 0 THEN q ELSE q + 1

\* str(e) of an exception: its whole message.
\* (Variant: cut to NoteMax characters, as test_database does.)
py_str_trunc(e) == SubSeq(e.message, 1, Min2(Len(e.message), NoteMax))
py_str(e) == e.message

\* `... if db else 0`: the truth test of the global handle.  A handle whose
\* truth test itself raises is one more way for line 111 to raise.
\* (Variant: the query is issued without the test.)
db_truthy_always(h) == TRUE
db_truthy(h) == h # "None"

total_beds == 250

\* (Variant: multiplies before dividing.)
occupied_beds_mul_first(D) == Min2(total_beds, 150 + (D * 3) \div 2)
occupied_beds(D) == Min2(total_beds, 150 + (D \div 2) * 3)

\* (Variant: int() in place of round().)
bed_pct_int(D) == (occupied_beds(D) * 100) \div total_beds
bed_pct(D) == py_round(occupied_beds(D) * 100, total_beds)

\* (Variant: the upper clamp is missing.)
wait_min_no_cap(D, A) == Max2(5, 10 + A \div 3 - D \div 5)
wait_min(D, A) == Max2(5, Min2(45, 10 + A \div 3 - D \div 5))

activity(D, A) == Max2(40, Min2(95, 60 + D * 2 - A \div 4))

\* (Variant: 24 is substituted for every count below 12.)
doctors_field_small(D) == Max2(12, IF D < 12 THEN 24 ELSE D)
doctors_field(D) == Max2(12, IF D # 0 THEN D ELSE 24)

\* The dict returned at the end of the try block.
computed_body(D, A) ==
    [wait |-> wait_min(D, A), beds |-> bed_pct(D),
     doctors |-> doctors_field(D), activity |-> activity(D, A)]

\* The dict returned by the except clause.
fallback_body(e) ==
    [wait |-> 15, beds |-> 82, doctors |-> 24, activity |-> 70, note |-> py_str(e)]

Pending == [pending |-> TRUE]

Unbound == -1

\* No exception has been caught: e of the except clause is unbound.
NoException == [raised |-> FALSE]

\* ------------------------------------------------------------------- state
VARIABLES db, doctor, appointment, patient, pc, doctors_count, todays_appts, exc, resp

vars == <<db, doctor, appointment, patient, pc, doctors_count, todays_appts, exc, resp>>

store == <<db, doctor, appointment, patient>>

InitRequests ==
    /\ pc = [r \in Requests |-> "idle"]
    /\ doctors_count = [r \in Requests |-> Unbound]
    /\ todays_appts = [r \in Requests |-> Unbound]
    /\ exc = [r \in Requests |-> NoException]
    /\ resp = [r \in Requests |-> Pending]

Init ==
    /\ db \in {"None", "handle"}
    /\ doctor = [on |-> 0, off |-> 0]
    /\ appointment = [today |-> 0, other |-> 0]
    /\ patient = 0
    /\ InitRequests

\* A store that already holds D on-duty doctors and A appointments for today.
InitFn ==
    /\ db \in {"None", "handle"}
    /\ \E D \in 0..MaxD : doctor = [on |-> D, off |-> 0]
    /\ \E A \in 0..MaxA : appointment = [today |-> A, other |-> 0]
    /\ patient = 0
    /\ InitRequests

\* ----------------------------------------------------------------- inserts
\* POST /doctors with payload.on_duty = on_duty; a failing create_document
\* is answered with status 500 and leaves every variable unchanged.
create_doctor(on_duty) ==
    /\ db = "handle"
    /\ IF on_duty
       THEN doctor.on < MaxOnDuty /\ doctor' = [doctor EXCEPT !.on = @ + 1]
       ELSE doctor.off < MaxOther /\ doctor' = [doctor EXCEPT !.off = @ + 1]
    /\ UNCHANGED <<db, appointment, patient, pc, doctors_count, todays_appts, exc, resp>>

\* POST /appointments with payload.date equal to today's date or not.
create_appointment(is_today) ==
    /\ db = "handle"
    /\ IF is_today
       THEN appointment.today < MaxToday
            /\ appointment' = [appointment EXCEPT !.today = @ + 1]
       ELSE appointment.other < MaxOther
            /\ appointment' = [appointment EXCEPT !.other = @ + 1]
    /\ UNCHANGED <<db, doctor, patient, pc, doctors_count, todays_appts, exc, resp>>

\* POST /patients.
create_patient ==
    /\ db = "handle"
    /\ patient < MaxOther
    /\ patient' = patient + 1
    /\ UNCHANGED <<db, doctor, appointment, pc, doctors_count, todays_appts, exc, resp>>

\* -------------------------------------------------------------- live_stats
\* Line 111 returns: the request enters the handler and binds doctors_count.
live_stats_doctors(r) ==
    /\ pc[r] = "idle"
    /\ doctors_count' = [doctors_count EXCEPT
                           ![r] = IF db_truthy(db) THEN doctor.on ELSE 0]
    /\ pc' = [pc EXCEPT ![r] = "line118"]
    /\ UNCHANGED <<store, todays_appts, exc, resp>>

\* Line 111 raises e: the except clause answers.
live_stats_doctors_raise(r, e) ==
    /\ pc[r] = "idle"
    /\ db_truthy(db)
    /\ exc' = [exc EXCEPT ![r] = e]
    /\ resp' = [resp EXCEPT ![r] = fallback_body(e)]
    /\ pc' = [pc EXCEPT ![r] = "done"]
    /\ UNCHANGED <<store, doctors_count, todays_appts>>

\* Line 118 returns and lines 119-129 build the answer.
\* (Variants: the on-duty count is taken from the other invocation; the
\* query writes to the store.)
live_stats_appts_other(r) ==
    /\ pc[r] = "line118"
    /\ LET A == IF db_truthy(db) THEN appointment.today ELSE 0
           q == CHOOSE x \in Requests : x # r
           D == IF doctors_count[q] # Unbound THEN doctors_count[q] ELSE doctors_count[r]
       IN  /\ todays_appts' = [todays_appts EXCEPT ![r] = A]
           /\ resp' = [resp EXCEPT ![r] = computed_body(D, A)]
    /\ pc' = [pc EXCEPT ![r] = "done"]
    /\ UNCHANGED <<store, doctors_count, exc>>
live_stats_appts_upsert(r) ==
    /\ pc[r] = "line118"
    /\ LET A == IF db_truthy(db) THEN appointment.today ELSE 0
       IN  /\ todays_appts' = [todays_appts EXCEPT ![r] = A]
           /\ resp' = [resp EXCEPT ![r] = computed_body(doctors_count[r], A)]
    /\ pc' = [pc EXCEPT ![r] = "done"]
    /\ appointment' = [appointment EXCEPT !.other = @ + 1]
    /\ UNCHANGED <<db, doctor, patient, doctors_count, exc>>
live_stats_appts(r) ==
    /\ pc[r] = "line118"
    /\ LET A == IF db_truthy(db) THEN appointment.today ELSE 0
       IN  /\ todays_appts' = [todays_appts EXCEPT ![r] = A]
           /\ resp' = [resp EXCEPT ![r] = computed_body(doctors_count[r], A)]
    /\ pc' = [pc EXCEPT ![r] = "done"]
    /\ UNCHANGED <<store, doctors_count, exc>>

\* Line 118 raises e after line 111 returned: the except clause answers.
\* (Variant: the values already computed from doctors_count are kept.)
live_stats_appts_raise_partial(r, e) ==
    /\ pc[r] = "line118"
    /\ db_truthy(db)
    /\ exc' = [exc EXCEPT ![r] = e]
    /\ resp' = [resp EXCEPT ![r] =
                  [fallback_body(e) EXCEPT !.beds = bed_pct(doctors_count[r]),
                                           !.doctors = doctors_field(doctors_count[r])]]
    /\ pc' = [pc EXCEPT ![r] = "done"]
    /\ UNCHANGED <<store, doctors_count, todays_appts>>
live_stats_appts_raise(r, e) ==
    /\ pc[r] = "line118"
    /\ db_truthy(db)
    /\ exc' = [exc EXCEPT ![r] = e]
    /\ resp' = [resp EXCEPT ![r] = fallback_body(e)]
    /\ pc' = [pc EXCEPT ![r] = "done"]
    /\ UNCHANGED <<store, doctors_count, todays_appts>>

\* The answer has been sent with status 200: the invocation's locals and
\* return value are gone and the worker is free for the next request.
live_stats_sent(r) ==
    /\ pc[r] = "done"
    /\ pc' = [pc EXCEPT ![r] = "idle"]
    /\ doctors_count' = [doctors_count EXCEPT ![r] = Unbound]
    /\ todays_appts' = [todays_appts EXCEPT ![r] = Unbound]
    /\ exc' = [exc EXCEPT ![r] = NoException]
    /\ resp' = [resp EXCEPT ![r] = Pending]
    /\ UNCHANGED store

live_stats(r) ==
    \/ live_stats_doctors(r)
    \/ \E e \in Exceptions : live_stats_doctors_raise(r, e)
    \/ live_stats_appts(r)
    \/ \E e \in Exceptions : live_stats_appts_raise(r, e)
    \/ live_stats_sent(r)

\* Concurrent requests and inserts over an initially empty store.
Next ==
    \/ \E on_duty \in BOOLEAN : create_doctor(on_duty)
    \/ \E is_today \in BOOLEAN : create_appointment(is_today)
    \/ create_patient
    \/ \E r \in Requests : live_stats(r)

Spec == Init /\ [][Next]_vars

\* One request at a time over a pre-populated store.
NextFn == live_stats("r1")

SpecFn == InitFn /\ [][NextFn]_vars

\* ----------------------------------------------------------- vocabulary
Done(r) == pc[r] = "done"

OnFallback(r) == Done(r) /\ "note" \in DOMAIN resp[r]

OnComputed(r) == Done(r) /\ "note" \notin DOMAIN resp[r]

Fields == {"wait", "beds", "doctors", "activity"}

Clamp(x, lo, hi) == IF x < lo THEN lo ELSE IF x > hi THEN hi ELSE x

RoundHalfUp(num, den) == (2 * num + den) \div (2 * den)

\* ------------------------------------------------------------------ claims

\* C1: every answer of live_stats, computed or fallback, carries the four
\* fields with 5 <= wait <= 45, 0 <= beds <= 100, doctors >= 12 and
\* 40 <= activity <= 95; a finished invocation always holds an answer.
C1_WellFormed ==
    \A r \in Requests :
        Done(r) =>
            /\ resp[r] # Pending
            /\ Fields \subseteq DOMAIN resp[r]
            /\ DOMAIN resp[r] \subseteq Fields \cup {"note"}
            /\ 5 <= resp[r].wait /\ resp[r].wait <= 45
            /\ 0 <= resp[r].beds /\ resp[r].beds <= 100
            /\ resp[r].doctors >= 12
            /\ 40 <= resp[r].activity /\ resp[r].activity <= 95

\* Both clamps of the computed path bind: raw wait 46 and raw activity 33.
C1_Witness ==
    \E r \in Requests :
        /\ OnComputed(r)
        /\ doctors_count[r] = 0 /\ todays_appts[r] >= 108
        /\ resp[r].wait = 45 /\ resp[r].activity = 40

\* C2: when both count queries succeed with D and A, the answer has
\* beds = round(min(250, 150 + (D div 2) * 3) * 100 / 250),
\* wait = clamp(10 + (A div 3) - (D div 5), 5, 45) and
\* activity = clamp(60 + 2*D - (A div 4), 40, 95); (0,0) gives 60/10/60,
\* (24,9) gives 74/9/95 and (100,0) gives 100/5/95.
C2_Formulas ==
    \A r \in Requests :
        (OnComputed(r) /\ db = "handle") =>
            LET D == doctor.on
                A == appointment.today
                occ == IF 150 + (D \div 2) * 3 > 250 THEN 250 ELSE 150 + (D \div 2) * 3
            IN  /\ doctors_count[r] = D /\ todays_appts[r] = A
                /\ resp[r].beds = RoundHalfUp(occ * 100, 250)
                /\ resp[r].wait = Clamp(10 + (A \div 3) - (D \div 5), 5, 45)
                /\ resp[r].activity = Clamp(60 + 2 * D - (A \div 4), 40, 95)
                /\ (D = 0 /\ A = 0) =>
                       resp[r].beds = 60 /\ resp[r].wait = 10 /\ resp[r].activity = 60
                /\ (D = 24 /\ A = 9) =>
                       resp[r].beds = 74 /\ resp[r].wait = 9 /\ resp[r].activity = 95
                /\ (D = 100 /\ A = 0) =>
                       resp[r].beds = 100 /\ resp[r].wait = 5 /\ resp[r].activity = 95

C2_Witness ==
    \E r \in Requests :
        /\ OnComputed(r) /\ db = "handle"
        /\ doctor.on = 24 /\ appointment.today = 9
        /\ resp[r] = [wait |-> 9, beds |-> 74, doctors |-> 24, activity |-> 95]

Raised(r) == Done(r) /\ exc[r] # NoException

FallbackValues(r) ==
    /\ resp[r].wait = 15 /\ resp[r].beds = 82
    /\ resp[r].doctors = 24 /\ resp[r].activity = 70

\* C3 as stated: a failing count query (the first, or the second after the
\* first succeeded) yields exactly wait 15, beds 82, doctors 24, activity 70
\* together with a non-empty note.
C3_AsStated ==
    \A r \in Requests :
        Raised(r) =>
            /\ DOMAIN resp[r] = Fields \cup {"note"}
            /\ FallbackValues(r)
            /\ Len(resp[r].note) > 0

\* C3 amended: a failing count query yields exactly wait 15, beds 82,
\* doctors 24, activity 70, whatever D was read before, together with a note
\* field holding the error's description, which is empty exactly when that
\* description is; and only a failing query produces a note.
C3_Fallback ==
    \A r \in Requests :
        /\ Raised(r) =>
              /\ DOMAIN resp[r] = Fields \cup {"note"}
              /\ FallbackValues(r)
              /\ (Len(resp[r].note) = 0) <=> (Len(exc[r].message) = 0)
        /\ OnFallback(r) => Raised(r)

\* The second query failed after a D was read whose computed beds and
\* doctors differ from the fallback's.
C3_Witness ==
    \E r \in Requests :
        /\ Raised(r)
        /\ doctors_count[r] = 100 /\ todays_appts[r] = Unbound
        /\ resp[r].beds = 82 /\ resp[r].doctors = 24
        /\ Len(resp[r].note) > 0

\* C4 as stated: with the handle db unset, live_stats answers with the
\* fallback wait 15, beds 82, doctors 24, activity 70 and a note.
C4_AsStated ==
    \A r \in Requests :
        (db = "None" /\ Done(r)) =>
            /\ "note" \in DOMAIN resp[r]
            /\ FallbackValues(r)

\* C4 amended: with the handle db unset, live_stats issues no query, takes
\* both counts as 0 and answers with the snapshot computed from them,
\* wait 10, beds 60, doctors 24, activity 60, without a note.
C4_UnsetHandle ==
    \A r \in Requests :
        (db = "None" /\ Done(r)) =>
            /\ exc[r] = NoException
            /\ doctors_count[r] = 0 /\ todays_appts[r] = 0
            /\ resp[r] = [wait |-> 10, beds |-> 60, doctors |-> 24, activity |-> 60]

C4_Witness ==
    \E r \in Requests :
        /\ db = "None" /\ Done(r)
        /\ doctor.on > 0 /\ appointment.today > 0
        /\ resp[r].wait = 10 /\ "note" \notin DOMAIN resp[r]

IsPrefix(s, t) == Len(s) <= Len(t) /\ SubSeq(t, 1, Len(s)) = s

\* C5 as stated: the note of the failure path is a truncated description:
\* its length never exceeds a fixed maximum, and for a longer description it
\* is a strict prefix of it.
C5_AsStated ==
    \A r \in Requests :
        Raised(r) =>
            /\ Len(resp[r].note) <= NoteMax
            /\ IsPrefix(resp[r].note, exc[r].message)
            /\ Len(exc[r].message) > NoteMax => resp[r].note # exc[r].message

\* C5 amended: the note of the failure path is the error's whole
\* description, of whatever length; nothing is cut off.
C5_WholeNote ==
    \A r \in Requests :
        Raised(r) =>
            /\ "note" \in DOMAIN resp[r]
            /\ Len(resp[r].note) = Len(exc[r].message)
            /\ resp[r].note = exc[r].message

C5_Witness ==
    \E r \in Requests :
        /\ Raised(r)
        /\ Len(exc[r].message) > NoteMax
        /\ Len(resp[r].note) = NoteMax + 1

\* The synthesizer of the specification, written out on its two inputs.
Synth(D, A) ==
    LET raw == 150 + (D \div 2) * 3
        occ == IF raw > 250 THEN 250 ELSE raw
        duty == IF D = 0 THEN 24 ELSE D
    IN  [wait |-> Clamp(10 + (A \div 3) - (D \div 5), 5, 45),
         beds |-> RoundHalfUp(occ * 100, 250),
         doctors |-> IF duty < 12 THEN 12 ELSE duty,
         activity |-> Clamp(60 + 2 * D - (A \div 4), 40, 95)]

\* C6: under any interleaving of concurrent requests and inserts, a
\* request's computed answer is the synthesizer applied to the D and A this
\* very request read, whatever the other request holds and whatever the
\* store holds by now.
C6_OwnReads ==
    \A r \in Requests :
        OnComputed(r) =>
            /\ doctors_count[r] # Unbound /\ todays_appts[r] # Unbound
            /\ resp[r] = Synth(doctors_count[r], todays_appts[r])

\* An insert came between the request's two reads and after them, and the
\* other request is in flight holding a different D.
C6_Witness ==
    \E r \in Requests : \E q \in Requests \ {r} :
        /\ OnComputed(r)
        /\ doctors_count[r] = 0 /\ todays_appts[r] = 1
        /\ doctor.on = 3 /\ appointment.today = 4
        /\ pc[q] = "line118" /\ doctors_count[q] = 2

\* C7: a step of live_stats, on the computed and on the fallback path,
\* leaves the handle and the doctor, appointment and patient collections
\* unchanged, and an answer computed by a call is determined by the on-duty
\* count that call read and the appointment count the store holds at its
\* second query, nothing kept from earlier calls.
C7_ReadOnly ==
    [][\A r \in Requests :
          pc'[r] # pc[r] =>
              /\ UNCHANGED store
              /\ (pc[r] = "idle" /\ pc'[r] = "line118") =>
                     doctors_count'[r] = (IF db = "None" THEN 0 ELSE doctor.on)
              /\ (pc[r] = "line118" /\ pc'[r] = "done" /\ exc'[r] = NoException) =>
                     resp'[r] = Synth(doctors_count[r],
                                      IF db = "None" THEN 0 ELSE appointment.today)]_vars

\* Both paths have answered over a store holding documents of every kind.
C7_Witness ==
    \E r \in Requests : \E q \in Requests \ {r} :
        /\ OnComputed(r) /\ OnFallback(q)
        /\ doctor.on > 0 /\ doctor.off > 0
        /\ appointment.today > 0 /\ appointment.other > 0
        /\ patient > 0

\* C9: on the computed path doctors is 24 for D = 0, 12 for 1 <= D <= 11
\* and D for D >= 12.
C9_Doctors ==
    \A r \in Requests :
        OnComputed(r) =>
            LET D == doctors_count[r]
            IN  /\ D = 0 => resp[r].doctors = 24
                /\ (1 <= D /\ D <= 11) => resp[r].doctors = 12
                /\ D >= 12 => resp[r].doctors = D

C9_Witness ==
    \E r \in Requests :
        /\ OnComputed(r) /\ db = "handle"
        /\ doctors_count[r] = 11 /\ resp[r].doctors = 12

\* C10: for every D the exact percentage occupiedBeds * 100 / 250 is never
\* a half-integer, so rounding half up and rounding half to even agree on
\* it, and the percentage answered lies in 60..100.
C10_NoTie ==
    \A r \in Requests :
        OnComputed(r) =>
            LET D == doctors_count[r]
                raw == 150 + (D \div 2) * 3
                num == (IF raw > 250 THEN 250 ELSE raw) * 100
            IN  /\ 2 * (num % 250) # 250
                /\ resp[r].beds = RoundHalfUp(num, 250)
                /\ resp[r].beds = py_round(num, 250)
                /\ 60 <= resp[r].beds /\ resp[r].beds <= 100

\* A percentage with a fractional part above one half was rounded up:
\* D = 10 occupies 165 beds, 66 %, D = 12 occupies 168 beds, 67.2 %, and
\* D = 6 occupies 159 beds, 63.6 %, answered as 64.
C10_Witness ==
    \E r \in Requests :
        /\ OnComputed(r)
        /\ doctors_count[r] = 6 /\ resp[r].beds = 64

====
